---- MODULE Spec2Model ----
(***************************************************************************)
(* TradingBook (src/src/main.py): an append-only CSV ledger of trade       *)
(* events, the replay that rebuilds open lots and realized P/L from it     *)
(* (build_portfolio), and the commands that validate a request against the *)
(* replayed state and append new events (add, trim, close, stop, split).   *)
(*                                                                         *)
(* Decimal values are modelled by integers.  Decimal(str) and str(Decimal) *)
(* are exact and inverse to each other; every arithmetic operation rounds  *)
(* its result to getcontext().prec = 12 significant digits (Round below).  *)
(* The date column is carried by no computation of the program and is left *)
(* out of the rows.                                                        *)
(***************************************************************************)
EXTENDS Integers, Sequences, FiniteSets, TLC

(* ---------------------------- bounds ----------------------------------- *)
\* rows the ledger may hold
MaxRows == 4

\* rows of a ledger handed to build_portfolio on its own
MaxLedger == 3

\* rows the ledger may hold when invocations overlap and appends fail
MaxStoreRows == 4

(* --------------------------- Decimal ----------------------------------- *)
\* 10^12, the least number of more than prec = 12 digits.  TLC's integers end
\* below it, so the model writes the number h * 10^12 + l, for h in 0 .. 9 and
\* a small l, as h * E12 + l: the digits in between, all 0 in every number of
\* the model, are left out.  Sums, differences, comparisons and the products
\* with a small number are the same on both forms.
E12 == 1000000

\* a number of thirteen digits rounded to twelve, ROUND_HALF_EVEN
RoundTen(x) ==
    LET q == x \div 10
        r == x % 10
    IN  IF r < 5 THEN 10 * q
        ELSE IF r > 5 THEN 10 * (q + 1)
        ELSE IF q % 2 = 0 THEN 10 * q ELSE 10 * (q + 1)

\* the result of a Decimal operation in the context of the program
Round(x) == IF x >= E12 \/ -x >= E12 THEN RoundTen(x) ELSE x

\* Decimal("NaN"), a price the program accepts: a number off every other
\* number of the model
NaN == -999999999

\* a - b, a * b and a + b in the context: a NaN operand gives NaN
DSub(a, b) == IF a = NaN \/ b = NaN THEN NaN ELSE Round(a - b)
DMul(a, b) == IF a = NaN \/ b = NaN THEN NaN ELSE Round(a * b)
DAdd(a, b) == IF a = NaN \/ b = NaN THEN NaN ELSE Round(a + b)

VARIABLES
    rows,   \* the data rows of trades.csv, in physical order
    call,   \* the command line of the running invocation
    out,    \* what the invocation printed (or the exception it died of)
    cursor, \* build_portfolio on its own: rows the loop has consumed
    book,   \* build_portfolio on its own: positions, realized, exception
    procs   \* overlapping invocations: where each process is in its handler

vars == <<rows, call, out, cursor, book, procs>>

(* ------------------------- notes and tokens ---------------------------- *)
\* A note is the sequence of its whitespace-separated tokens (str.split()).
\* A token is a word, "id=<int>", "id=<not an int>" or "<i>/<n>".
Word(s) == [k |-> s, n |-> 0, m |-> 0]
IdTok(i) == [k |-> "id=", n |-> i, m |-> 0]
BadIdTok == [k |-> "id=?", n |-> 0, m |-> 0]
PartTok(i, t) == [k |-> "i/n", n |-> i, m |-> t]

\* token.startswith("id=")
StartsWithId(tok) == tok.k \in {"id=", "id=?"}
\* int(token.split("=", 1)[1]) does not raise ValueError
IntParses(tok) == tok.k = "id="

NoTarget == [found |-> FALSE, id |-> 0]

RECURSIVE ScanTokens(_, _)
ScanTokens(note, i) ==
    IF i > Len(note) THEN NoTarget
    ELSE IF StartsWithId(note[i]) /\ IntParses(note[i])
         THEN [found |-> TRUE, id |-> note[i].n]
         ELSE ScanTokens(note, i + 1)

\* _parse_target_id: the first token "id=<int>"; found = FALSE is the
\* ValueError("target id not found in note")
parse_target_id(note) == ScanTokens(note, 1)

(* ------------------------------ rows ----------------------------------- *)
make_row(row_id, ticker, qty, price, stop, note) ==
    [id |-> row_id, ticker |-> ticker, qty |-> qty, price |-> price,
     stop |-> stop, note |-> note]

RECURSIVE MaxId(_, _)
MaxId(rs, i) ==
    IF i > Len(rs) THEN 0
    ELSE LET rest == MaxId(rs, i + 1)
         IN  IF i = Len(rs) THEN rs[i].id
             ELSE IF rs[i].id > rest THEN rs[i].id ELSE rest

next_row_id(rs) == IF Len(rs) = 0 THEN 1 ELSE MaxId(rs, 1) + 1

\* str.upper() on the tickers of the model
upper(t) == CASE t = "a" -> "A"
              [] t = "b" -> "B"
              [] OTHER -> t

(* ----------------------------- replay ---------------------------------- *)
Lot(lot_id, ticker, qty, price, stop) ==
    [id |-> lot_id, ticker |-> ticker, qty |-> qty, price |-> price, stop |-> stop]

\* dict.setdefault(key, dflt)
setdefault(d, key, dflt) ==
    IF key \in DOMAIN d THEN d
    ELSE [x \in DOMAIN d \cup {key} |-> IF x = key THEN dflt ELSE d[x]]

\* d[key] = val
Put(d, key, val) == [x \in DOMAIN d \cup {key} |-> IF x = key THEN val ELSE d[x]]

\* del d[key]
Del(d, key) == [x \in DOMAIN d \ {key} |-> d[x]]

EmptyDict == [x \in {} |-> 0]

EmptyPortfolio == [positions |-> EmptyDict, realized |-> EmptyDict, err |-> FALSE]

\* positions.setdefault(ticker, {}); realized.setdefault(ticker, Decimal("0"))
Defaults(st, r) ==
    [st EXCEPT !.positions = setdefault(st.positions, r.ticker, EmptyDict),
               !.realized = setdefault(st.realized, r.ticker, 0)]

\* qty > 0: positions[ticker][row_id] = Lot(...)
OpenLot(st, r) ==
    [st EXCEPT !.positions[r.ticker] =
        Put(st.positions[r.ticker], r.id, Lot(r.id, r.ticker, r.qty, r.price, r.stop))]

\* the reduction that takes a missing lot for an error
Reduce_strict(st, r) ==
    LET lots == st.positions[r.ticker]
        t == parse_target_id(r.note)
    IN  IF ~t.found \/ t.id \notin DOMAIN lots THEN [st EXCEPT !.err = TRUE]
        ELSE LET lot == lots[t.id]
                 sell_qty == IF Round(-r.qty) > lot.qty THEN lot.qty ELSE Round(-r.qty)
                 left == Round(lot.qty - sell_qty)
             IN  [st EXCEPT
                     !.realized[r.ticker] =
                         DAdd(@, DMul(sell_qty, DSub(r.price, lot.price))),
                     !.positions[r.ticker] =
                         IF left = 0 THEN Del(lots, t.id)
                         ELSE Put(lots, t.id, [lot EXCEPT !.qty = left])]

\* the reduction without its clamp
Reduce_unclamped(st, r) ==
    LET lots == st.positions[r.ticker]
        t == parse_target_id(r.note)
    IN  IF ~t.found THEN [st EXCEPT !.err = TRUE]
        ELSE IF t.id \notin DOMAIN lots THEN st
        ELSE LET lot == lots[t.id]
                 sell_qty == Round(-r.qty)
                 left == Round(lot.qty - sell_qty)
             IN  [st EXCEPT
                     !.realized[r.ticker] =
                         DAdd(@, DMul(sell_qty, DSub(r.price, lot.price))),
                     !.positions[r.ticker] =
                         IF left = 0 THEN Del(lots, t.id)
                         ELSE Put(lots, t.id, [lot EXCEPT !.qty = left])]

\* qty < 0: the reduction of the lot the note names
Reduce(st, r) ==
    LET lots == st.positions[r.ticker]
        t == parse_target_id(r.note)
    IN  IF ~t.found THEN [st EXCEPT !.err = TRUE]
        ELSE IF t.id \notin DOMAIN lots THEN st
        ELSE LET lot == lots[t.id]
                 sell_qty == IF Round(-r.qty) > lot.qty THEN lot.qty ELSE Round(-r.qty)
                 left == Round(lot.qty - sell_qty)
             IN  [st EXCEPT
                     !.realized[r.ticker] =
                         DAdd(@, DMul(sell_qty, DSub(r.price, lot.price))),
                     !.positions[r.ticker] =
                         IF left = 0 THEN Del(lots, t.id)
                         ELSE Put(lots, t.id, [lot EXCEPT !.qty = left])]

\* the stop move as the specification describes it: no reference, no effect
MoveStop_lenient(st, r) ==
    LET lots == st.positions[r.ticker]
        t == parse_target_id(r.note)
    IN  IF t.found /\ t.id \in DOMAIN lots
        THEN [st EXCEPT !.positions[r.ticker] =
                 Put(lots, t.id, [lots[t.id] EXCEPT !.stop = r.stop])]
        ELSE st

\* the stop move that brings a missing lot back
MoveStop_reopens(st, r) ==
    LET lots == st.positions[r.ticker]
        t == parse_target_id(r.note)
    IN  IF ~t.found THEN [st EXCEPT !.err = TRUE]
        ELSE IF t.id \in DOMAIN lots
        THEN [st EXCEPT !.positions[r.ticker] =
                 Put(lots, t.id, [lots[t.id] EXCEPT !.stop = r.stop])]
        ELSE [st EXCEPT !.positions[r.ticker] =
                 Put(lots, t.id, Lot(t.id, r.ticker, 1, r.price, r.stop))]

\* qty == 0: the stop move of the lot the note names
MoveStop(st, r) ==
    LET lots == st.positions[r.ticker]
        t == parse_target_id(r.note)
    IN  IF ~t.found THEN [st EXCEPT !.err = TRUE]
        ELSE IF t.id \in DOMAIN lots
        THEN [st EXCEPT !.positions[r.ticker] =
                 Put(lots, t.id, [lots[t.id] EXCEPT !.stop = r.stop])]
        ELSE st

\* one iteration of the loop of build_portfolio over row r
ReplayRow(st, r) ==
    LET d == Defaults(st, r)
    IN  IF r.qty > 0 THEN OpenLot(d, r)
        ELSE IF r.qty < 0 THEN Reduce(d, r)
        ELSE MoveStop(d, r)

RECURSIVE Replay(_, _)
\* the state of build_portfolio after the first k rows; err = TRUE is the
\* ValueError that leaves the loop
Replay(rs, k) ==
    IF k = 0 THEN EmptyPortfolio
    ELSE LET st == Replay(rs, k - 1)
         IN  IF st.err THEN st ELSE ReplayRow(st, rs[k])

build_portfolio(rs) == Replay(rs, Len(rs))

\* positions.get(ticker, {}).get(id): the lot, or NoLot for None
NoLot == Lot(0, "", 0, 0, 0)
GetLot(pf, ticker, id) ==
    IF ticker \in DOMAIN pf.positions /\ id \in DOMAIN pf.positions[ticker]
    THEN pf.positions[ticker][id] ELSE NoLot

(* ---------------------------- inputs ----------------------------------- *)
TickerArgs == {"a", "B"}
\* quantities a user types: negative, and enough to sell a part or all
Qtys == {-1, 1, 2}
\* prices a user types for a sale
Prices == {1, 2}
\* stops a user types
Stops == {1, 2}
\* --id: the id of every row so far and one id that is no row
IdArgs(rs) == 1 .. (Len(rs) + 1)
\* --note: absent, or a text with an unparseable and a parseable id= token
NoteArgs == {<<>>, <<BadIdTok, IdTok(1)>>}

\* an add: a quantity that is no purchase, a small one and two of thirteen
\* digits (one of them with a last digit that the context rounds away), at
\* one price and stop and without --note
AddQtys == {0, 2, E12 + 1, 2 * E12}
\* the second ticker is bought in the small quantity only
AddQtysOf(t) == IF t = "a" THEN AddQtys ELSE {2}
AddPrices == {2, NaN}
\* the price that is no number goes with one purchase only
AddPricesOf(t, q) == IF t = "a" /\ q = 2 THEN AddPrices ELSE {2}
AddStops == {1}
AddNotes == {<<>>}
\* --note of trim and stop: absent, or a text that names lot 2 (with the
\* trim of one share); close hands its --note on to cmd_trim
TrimNotes == {<<>>, <<IdTok(2)>>}
TrimNotesOf(q) == IF q = 1 THEN TrimNotes ELSE {<<>>}
StopNotes == {<<>>, <<IdTok(2)>>}
\* one sell price, below the entry price of every add, and one new stop, off
\* the stop of every add
SellPrices == {1}
NewStops == {2}
\* quantities of the parts of a split, and two parts of thirteen digits
PartQtys == {-1, 0, 1, 2, 3}
BigParts == {<<E12, 1>>, <<E12 + 1, 2>>}

\* One token of --parts is the sequence of its ":"-separated fields; a field
\* is a text Decimal() accepts (ok) or one it rejects.
Num(v) == [ok |-> TRUE, v |-> v]
NaD == [ok |-> FALSE, v |-> 0]
PartTokens ==
    {<<Num(q), Num(s)>> : q \in PartQtys, s \in Stops}
        \cup {<<Num(b[1]), Num(b[2])>> : b \in BigParts}
        \cup {<<Num(1)>>, <<Num(1), NaD>>}

RECURSIVE SeqsUpTo(_, _)
SeqsUpTo(S, n) ==
    IF n <= 0 THEN {<<>>}
    ELSE LET shorter == SeqsUpTo(S, n - 1)
         IN  shorter \cup {Append(sq, x) : sq \in {y \in shorter : Len(y) = n - 1}, x \in S}

\* the --parts arguments whose batch of Len(parts) + 1 rows fits the ledger
PartsArgs(rs) == SeqsUpTo(PartTokens, MaxRows - Len(rs) - 1)

NoParts == <<>>
Call(cmd, ticker, id, qty, price, stop, note, parts) ==
    [cmd |-> cmd, ticker |-> ticker, id |-> id, qty |-> qty, price |-> price,
     stop |-> stop, note |-> note, parts |-> parts]

NoCall == Call("none", "", 0, 0, 0, 0, <<>>, NoParts)

\* what an invocation leaves behind: the rows of the file and its output
Result(rs, o) == [rows |-> rs, out |-> o]

\* an exception of build_portfolio ends the process with a traceback
Traceback == "ValueError: target id not found in note"

\* two shells that run commands on the same store
Procs == {1, 2}
\* a process that runs no command
IdleProc == [pc |-> "idle", call |-> NoCall, loaded |-> <<>>, batch |-> <<>>, written |-> 0]

Init ==
    /\ rows = <<>>
    /\ call = NoCall
    /\ out = "none"
    /\ cursor = 0
    /\ book = EmptyPortfolio
    /\ procs = [p \in Procs |-> IdleProc]

(* ----------------------------- cmd_add --------------------------------- *)
add_result(rs, a) ==
    Result(Append(rs, make_row(next_row_id(rs), upper(a.ticker), a.qty, a.price,
                               a.stop, a.note)),
           "Added lot")

(* ----------------------------- cmd_trim -------------------------------- *)
\* the note with the user's text ahead of the reference
TrimNote_note_first(a) == a.note \o <<Word("trim"), IdTok(a.id)>>

\* f"trim id={args.id}" + (f" {args.note}" if args.note else "")
TrimNote(a) == <<Word("trim"), IdTok(a.id)>> \o a.note

\* cmd_trim without its over-sell check
trim_result_unchecked(rs, a) ==
    LET pf == build_portfolio(rs)
        ticker == upper(a.ticker)
        lot == GetLot(pf, ticker, a.id)
    IN  IF pf.err THEN Result(rs, Traceback)
        ELSE IF lot = NoLot THEN Result(rs, "Trim skipped: not found")
        ELSE Result(Append(rs, make_row(next_row_id(rs), ticker, Round(-a.qty), a.price, 0,
                                        TrimNote(a))),
                    "Trimmed lot")

trim_result(rs, a) ==
    LET pf == build_portfolio(rs)
        ticker == upper(a.ticker)
        lot == GetLot(pf, ticker, a.id)
    IN  IF pf.err THEN Result(rs, Traceback)
        ELSE IF lot = NoLot THEN Result(rs, "Trim skipped: not found")
        ELSE IF a.qty > lot.qty THEN Result(rs, "Trim skipped: only part left")
        ELSE Result(Append(rs, make_row(next_row_id(rs), ticker, Round(-a.qty), a.price, 0,
                                        TrimNote(a))),
                    "Trimmed lot")

(* ----------------------------- cmd_close ------------------------------- *)
close_result(rs, a) ==
    LET pf == build_portfolio(rs)
        ticker == upper(a.ticker)
        lot == GetLot(pf, ticker, a.id)
    IN  IF pf.err THEN Result(rs, Traceback)
        ELSE IF lot = NoLot THEN Result(rs, "Close skipped: not found")
        ELSE IF lot.qty = 0 THEN Result(rs, "Close skipped: already fully sold")
        ELSE trim_result(rs, [a EXCEPT !.ticker = ticker, !.qty = lot.qty])

(* ----------------------------- cmd_stop -------------------------------- *)
\* f"stop id={args.id}" + (f" {args.note}" if args.note else "")
StopNote(a) == <<Word("stop"), IdTok(a.id)>> \o a.note

stop_result(rs, a) ==
    LET pf == build_portfolio(rs)
        ticker == upper(a.ticker)
        lot == GetLot(pf, ticker, a.id)
    IN  IF pf.err THEN Result(rs, Traceback)
        ELSE IF lot = NoLot THEN Result(rs, "Stop skipped: not found")
        ELSE Result(Append(rs, make_row(next_row_id(rs), ticker, 0, 0, a.stop,
                                        StopNote(a))),
                    "Moved stop")

(* ----------------------------- cmd_split ------------------------------- *)
\* qty_s, stop_s = tok.split(":", 1); Decimal(qty_s), Decimal(stop_s) succeed:
\* a token of three fields leaves "s:x" as stop_s, which Decimal rejects
TokenParses(tok) == Len(tok) = 2 /\ tok[1].ok /\ tok[2].ok

\* the (qty, stop) pairs of the tokens, once every token parses
ParsedParts(tokens) == [i \in 1 .. Len(tokens) |-> <<tokens[i][1].v, tokens[i][2].v>>]

RECURSIVE SumQty(_, _)
\* sum(q for q, _ in parts) over the first i parts
SumQty(parts, i) == IF i = 0 THEN 0 ELSE Round(SumQty(parts, i - 1) + parts[i][1])

\* f"split from id={args.id} part {idx}/{total_rows}"
SplitNote(id, idx, total_rows) ==
    <<Word("split"), Word("from"), IdTok(id), Word("part"), PartTok(idx, total_rows)>>

\* rows_to_append with a row_id that the loop over parts[1:] never advances
SplitRows_stuck_id(rs, ticker, id, lot, parts) ==
    LET row_id == next_row_id(rs)
        total_rows == Len(parts) + 1
        trim_qty == Round(lot.qty - parts[1][1])
    IN  [i \in 1 .. total_rows |->
            IF i = 1 THEN
                make_row(row_id, ticker, Round(-trim_qty), lot.price, 0,
                         SplitNote(id, 1, total_rows))
            ELSE IF i = 2 THEN
                make_row(row_id + 1, ticker, 0, 0, parts[1][2],
                         SplitNote(id, 2, total_rows))
            ELSE
                make_row(row_id + 1, ticker, parts[i - 1][1], lot.price,
                         parts[i - 1][2], SplitNote(id, i, total_rows))]

\* len(stops) != len(set(stops))
DuplicateStops(parts) ==
    Cardinality({parts[i][2] : i \in 1 .. Len(parts)}) # Len(parts)

\* rows_to_append of cmd_split
SplitRows(rs, ticker, id, lot, parts) ==
    LET row_id == next_row_id(rs)
        total_rows == Len(parts) + 1
        trim_qty == Round(lot.qty - parts[1][1])
    IN  [i \in 1 .. total_rows |->
            IF i = 1 THEN
                make_row(row_id, ticker, Round(-trim_qty), lot.price, 0,
                         SplitNote(id, 1, total_rows))
            ELSE IF i = 2 THEN
                make_row(row_id + 1, ticker, 0, 0, parts[1][2],
                         SplitNote(id, 2, total_rows))
            ELSE
                make_row(row_id + i - 1, ticker, parts[i - 1][1], lot.price,
                         parts[i - 1][2], SplitNote(id, i, total_rows))]

split_result(rs, a) ==
    LET pf == build_portfolio(rs)
        ticker == upper(a.ticker)
        lot == GetLot(pf, ticker, a.id)
        tokens == a.parts
        parts == ParsedParts(tokens)
    IN  IF pf.err THEN Result(rs, Traceback)
        ELSE IF lot = NoLot \/ lot.qty = 0 THEN Result(rs, "Split skipped: not found or closed")
        ELSE IF \E i \in 1 .. Len(tokens) : ~TokenParses(tokens[i])
             THEN Result(rs, "Split skipped: invalid part")
        ELSE IF SumQty(parts, Len(parts)) # lot.qty THEN Result(rs, "Split skipped: parts sum")
        ELSE IF DuplicateStops(parts)
             THEN Result(rs, "Split skipped: duplicate stop values")
        ELSE Result(rs \o SplitRows(rs, ticker, a.id, lot, parts), "Split lot")

(* ---------------------------- invocations ------------------------------ *)
\* One process per command: it starts with nothing but the file, runs its
\* handler to the end and exits.  An invocation is explored while the ledger
\* has room for its rows.
Idle == call = NoCall /\ Len(rows) < MaxRows

Run(a, res) ==
    /\ Len(res.rows) <= MaxRows
    /\ rows' = res.rows
    /\ call' = a
    /\ out' = res.out
    /\ UNCHANGED <<cursor, book, procs>>

cmd_add ==
    /\ Idle
    /\ \E t \in TickerArgs : \E q \in AddQtysOf(t) :
       \E p \in AddPricesOf(t, q), s \in AddStops, n \in AddNotes :
           LET a == Call("add", t, 0, q, p, s, n, NoParts)
           IN  Run(a, add_result(rows, a))

cmd_trim ==
    /\ Idle
    /\ \E t \in TickerArgs, id \in IdArgs(rows), q \in Qtys, p \in SellPrices :
       \E n \in TrimNotesOf(q) :
           LET a == Call("trim", t, id, q, p, 0, n, NoParts)
           IN  Run(a, trim_result(rows, a))

cmd_close ==
    /\ Idle
    /\ \E t \in TickerArgs, id \in IdArgs(rows), p \in SellPrices, n \in NoteArgs :
           LET a == Call("close", t, id, 0, p, 0, n, NoParts)
           IN  Run(a, close_result(rows, a))

cmd_stop ==
    /\ Idle
    /\ \E t \in TickerArgs, id \in IdArgs(rows), s \in NewStops, n \in StopNotes :
           LET a == Call("stop", t, id, 0, 0, s, n, NoParts)
           IN  Run(a, stop_result(rows, a))

cmd_split ==
    /\ Idle
    /\ \E t \in TickerArgs, id \in IdArgs(rows), ps \in PartsArgs(rows) :
           LET a == Call("split", t, id, 0, 0, 0, <<>>, ps)
           IN  Run(a, split_result(rows, a))

\* the process ends: its arguments and its output are gone, the file stays
Exit ==
    /\ call # NoCall
    /\ call' = NoCall
    /\ out' = "none"
    /\ UNCHANGED <<rows, cursor, book, procs>>

Next == cmd_add \/ cmd_trim \/ cmd_close \/ cmd_stop \/ cmd_split \/ Exit

Spec == Init /\ [][Next]_vars

(* ------------------- build_portfolio on its own ------------------------ *)
\* Any syntactically valid ledger, planner-made or not: ids in row order,
\* quantities that over-sell, notes with and without a reference.
\* One quantity has thirteen digits, the last of them not 0.
LedgerQtys == {-2, -1, 0, 1, 2, E12 + 3}
LedgerNotes == {<<>>, <<BadIdTok>>, <<Word("x"), IdTok(1)>>}
\* the note of an opening is free text; one opening names an id in it
LedgerNotesOf(q) ==
    IF q = 1 THEN {<<>>, <<Word("x"), IdTok(1)>>}
    ELSE IF q > 0 THEN {<<>>}
    ELSE LedgerNotes
\* openings at price 2 and stop 1, sales at price 1, stop moves to 2
LedgerPrice(q) == IF q > 0 THEN 2 ELSE IF q < 0 THEN 1 ELSE 0
LedgerStop(q) == IF q > 0 THEN 1 ELSE IF q < 0 THEN 0 ELSE 2
LedgerRowsOf(i, t, q) ==
    {make_row(i, t, q, LedgerPrice(q), LedgerStop(q), n) : n \in LedgerNotesOf(q)}
LedgerRows(i) ==
    UNION {LedgerRowsOf(i, t, q) : t \in {"A", "B"}, q \in LedgerQtys}

RECURSIVE Ledgers(_)
Ledgers(n) ==
    IF n = 0 THEN {<<>>}
    ELSE LET shorter == Ledgers(n - 1)
         IN  shorter \cup {Append(l, r) : l \in {x \in shorter : Len(x) = n - 1},
                                           r \in LedgerRows(n)}

InitReplay ==
    /\ rows \in Ledgers(MaxLedger)
    /\ call = NoCall
    /\ out = "none"
    /\ cursor = 0
    /\ book = EmptyPortfolio
    /\ procs = [p \in Procs |-> IdleProc]

\* one iteration of "for r in rows"; an exception ends the loop
Iterate ==
    /\ cursor' = cursor + 1
    /\ book' = ReplayRow(book, rows[cursor + 1])
    /\ UNCHANGED <<rows, call, out, procs>>

\* the loop has a next row
Looping == cursor < Len(rows) /\ ~book.err

replay_open == Looping /\ rows[cursor + 1].qty > 0 /\ Iterate
replay_reduce == Looping /\ rows[cursor + 1].qty < 0 /\ Iterate
replay_stop_move == Looping /\ rows[cursor + 1].qty = 0 /\ Iterate

NextReplay == replay_open \/ replay_reduce \/ replay_stop_move

SpecReplay == InitReplay /\ [][NextReplay]_vars

(* ---------------- overlapping invocations, failing appends ------------- *)
\* A handler reads the file once (load_rows), decides on what it read and
\* then appends its rows one append_row at a time.  Nothing keeps a second
\* process from reading or appending in between, and an append can fail
\* (OSError of open or write), which ends the process where it stands.
StoreAdds == {Call("add", "a", 0, 2, 2, 1, <<>>, NoParts)}
StoreTrims == {Call("trim", "a", 1, 1, 1, 0, <<>>, NoParts)}
StoreCloses == {Call("close", "a", 1, 0, 1, 0, <<>>, NoParts)}
StoreStops == {Call("stop", "a", 1, 0, 0, 2, <<>>, NoParts)}
StoreSplits ==
    {Call("split", "a", 1, 0, 0, 0, <<>>, <<<<Num(1), Num(1)>>, <<Num(1), Num(2)>>>>)}

\* rows_to_append: the rows a handler that read rs is going to append
BatchOf(rs, res) == SubSeq(res.rows, Len(rs) + 1, Len(res.rows))

\* rows the running processes have yet to append
RECURSIVE Unwritten(_)
Unwritten(ps) ==
    IF ps = {} THEN 0
    ELSE LET p == CHOOSE x \in ps : TRUE
         IN  Len(procs[p].batch) - procs[p].written + Unwritten(ps \ {p})

\* process p has read the file and holds the rows it will append
Loads(p, a, res) ==
    /\ Len(rows) + Unwritten(Procs) + Len(BatchOf(rows, res)) <= MaxStoreRows
    /\ procs' = [procs EXCEPT ![p] = [pc |-> "writing", call |-> a, loaded |-> rows,
                                      batch |-> BatchOf(rows, res), written |-> 0]]
    /\ UNCHANGED <<rows, call, out, cursor, book>>

add_loads ==
    \E p \in Procs, a \in StoreAdds :
        procs[p].pc = "idle" /\ Loads(p, a, add_result(rows, a))

\* cmd_trim, called from the shell or by cmd_close
trim_loads ==
    \E p \in Procs :
        \/ \E a \in StoreTrims : procs[p].pc = "idle" /\ Loads(p, a, trim_result(rows, a))
        \/ procs[p].pc = "trim" /\ Loads(p, procs[p].call, trim_result(rows, procs[p].call))

\* cmd_close up to its call of cmd_trim, which reads the file again
close_loads ==
    \E p \in Procs, a \in StoreCloses :
        /\ procs[p].pc = "idle"
        /\ Len(rows) + Unwritten(Procs) + 1 <= MaxStoreRows
        /\ LET pf == build_portfolio(rows)
               ticker == upper(a.ticker)
               lot == GetLot(pf, ticker, a.id)
           IN  procs' = [procs EXCEPT ![p] =
                   IF pf.err \/ lot = NoLot \/ lot.qty = 0
                   THEN [pc |-> "writing", call |-> a, loaded |-> rows,
                         batch |-> <<>>, written |-> 0]
                   ELSE [pc |-> "trim", call |-> [a EXCEPT !.ticker = ticker, !.qty = lot.qty],
                         loaded |-> rows, batch |-> <<>>, written |-> 0]]
        /\ UNCHANGED <<rows, call, out, cursor, book>>

stop_loads ==
    \E p \in Procs, a \in StoreStops :
        procs[p].pc = "idle" /\ Loads(p, a, stop_result(rows, a))

split_loads ==
    \E p \in Procs, a \in StoreSplits :
        procs[p].pc = "idle" /\ Loads(p, a, split_result(rows, a))

\* the row as a locked store would write it: with the id that is next now
AppendedRow_fresh_id(rs, r) == [r EXCEPT !.id = next_row_id(rs)]

\* writer.writerow(row): the row as the handler made it
AppendedRow(rs, r) == r

\* the file after a failed append that took back the process's rows
RowsAfterFailure_rollback(rs, written) == SubSeq(rs, 1, Len(rs) - written)

\* the file after a failed append: as it was
RowsAfterFailure(rs, written) == rs

\* one append_row of process p
append ==
    \E p \in Procs :
        /\ procs[p].pc = "writing"
        /\ procs[p].written < Len(procs[p].batch)
        /\ rows' = Append(rows, AppendedRow(rows, procs[p].batch[procs[p].written + 1]))
        /\ procs' = [procs EXCEPT ![p].written = @ + 1]
        /\ UNCHANGED <<call, out, cursor, book>>

\* append_row raises: the exception ends the process
append_fails ==
    \E p \in Procs :
        /\ procs[p].pc = "writing"
        /\ procs[p].written < Len(procs[p].batch)
        /\ rows' = RowsAfterFailure(rows, procs[p].written)
        /\ procs' = [procs EXCEPT ![p].pc = "failed"]
        /\ UNCHANGED <<call, out, cursor, book>>

\* the process ends, having written all its rows or died
exit ==
    \E p \in Procs :
        /\ \/ procs[p].pc = "failed"
           \/ procs[p].pc = "writing" /\ procs[p].written = Len(procs[p].batch)
        /\ procs' = [procs EXCEPT ![p] = IdleProc]
        /\ UNCHANGED <<rows, call, out, cursor, book>>

NextStore ==
    \/ add_loads \/ trim_loads \/ close_loads \/ stop_loads \/ split_loads
    \/ append \/ append_fails \/ exit

SpecStore == Init /\ [][NextStore]_vars

(* ------------------------ reading a portfolio -------------------------- *)
\* the open lots of a ticker, by id
LotsOf(p, t) == IF t \in DOMAIN p.positions THEN p.positions[t] ELSE EmptyDict
LotSet(p, t) == {LotsOf(p, t)[i] : i \in DOMAIN LotsOf(p, t)}
RealizedOf(p, t) == IF t \in DOMAIN p.realized THEN p.realized[t] ELSE 0
\* lot id is open under ticker t in the replayed state
IsOpen(p, t, id) == ~p.err /\ id \in DOMAIN LotsOf(p, t)
\* the remaining quantity of a lot, 0 once it is gone
Remaining(p, t, id) == IF id \in DOMAIN LotsOf(p, t) THEN LotsOf(p, t)[id].qty ELSE 0

RECURSIVE SumQtyOf(_)
SumQtyOf(lots) ==
    IF lots = {} THEN 0
    ELSE LET l == CHOOSE x \in lots : TRUE IN l.qty + SumQtyOf(lots \ {l})
TotalQty(p, t) == SumQtyOf(LotSet(p, t))

\* the rows a step appended
Appended == SubSeq(rows', Len(rows) + 1, Len(rows'))
AppendOnly == Len(rows') >= Len(rows) /\ SubSeq(rows', 1, Len(rows)) = rows

\* the four checks the specification lists for a split, on arguments a
PartIsQtyStop(tok) == Len(tok) = 2 /\ tok[1].ok /\ tok[2].ok
PartQty(a, i) == a.parts[i][1].v
PartStop(a, i) == a.parts[i][2].v
RECURSIVE PartQtySum(_, _)
PartQtySum(a, i) == IF i = 0 THEN 0 ELSE PartQty(a, i) + PartQtySum(a, i - 1)
SplitChecksPass(rs, a) ==
    LET p == build_portfolio(rs)
        t == upper(a.ticker)
        n == Len(a.parts)
    IN  /\ IsOpen(p, t, a.id)
        /\ \A i \in 1 .. n : PartIsQtyStop(a.parts[i])
        /\ PartQtySum(a, n) = Remaining(p, t, a.id)
        /\ \A i, j \in 1 .. n : i # j => PartStop(a, i) # PartStop(a, j)

(* ------------------------------ claims --------------------------------- *)
\* C1: a split that passes the four checks leaves the total open quantity of
\* its ticker as it was.  Stated as the claim has it; the code breaks it.
C1_SplitPreservesTotalQty ==
    [][(call'.cmd = "split" /\ SplitChecksPass(rows, call'))
        => TotalQty(build_portfolio(rows'), upper(call'.ticker))
           = TotalQty(build_portfolio(rows), upper(call'.ticker))]_vars

\* C2: after a split that passes the checks, the lots of the ticker are: the
\* lots it had, untouched, except that L now holds part 1 (quantity and stop),
\* and one new lot per further part, at L's entry price.  Stated as the claim
\* has it; the code breaks it.
C2_SplitLotsArePerPart ==
    [][(call'.cmd = "split" /\ SplitChecksPass(rows, call'))
        => LET t == upper(call'.ticker)
               before == build_portfolio(rows)
               after == build_portfolio(rows')
               L == LotsOf(before, t)[call'.id]
               n == Len(call'.parts)
               fresh == {l \in LotSet(after, t) : l.id \notin DOMAIN LotsOf(before, t)}
           IN  /\ ~after.err
               /\ DOMAIN LotsOf(before, t) \subseteq DOMAIN LotsOf(after, t)
               /\ \A i \in DOMAIN LotsOf(before, t) \ {L.id} :
                      LotsOf(after, t)[i] = LotsOf(before, t)[i]
               /\ LotsOf(after, t)[L.id] =
                      [L EXCEPT !.qty = PartQty(call', 1), !.stop = PartStop(call', 1)]
               /\ Cardinality(fresh) = n - 1
               /\ {<<l.qty, l.stop, l.price>> : l \in fresh}
                      = {<<PartQty(call', i), PartStop(call', i), L.price>> : i \in 2 .. n}]_vars

\* C3: a trim on an open lot for no more than the lot holds appends one row,
\* a reduction (qty < 0) whose note resolves to the lot; afterwards the lot
\* holds that much less and realized has grown by qty * (price - entry).
\* Stated as the claim has it; the code breaks it.
C3_TrimAppendsReduction ==
    [][(/\ call'.cmd = "trim"
        /\ IsOpen(build_portfolio(rows), upper(call'.ticker), call'.id)
        /\ call'.qty <= Remaining(build_portfolio(rows), upper(call'.ticker), call'.id))
        => LET t == upper(call'.ticker)
               before == build_portfolio(rows)
               after == build_portfolio(rows')
               lot == LotsOf(before, t)[call'.id]
           IN  /\ AppendOnly
               /\ Len(Appended) = 1
               /\ Appended[1].qty < 0
               /\ parse_target_id(Appended[1].note) = [found |-> TRUE, id |-> call'.id]
               /\ Remaining(after, t, call'.id) = lot.qty - call'.qty
               /\ RealizedOf(after, t)
                      = RealizedOf(before, t) + call'.qty * (call'.price - lot.price)]_vars

\* C4: every add appends one row, with qty > 0, which replays as the opening
\* of the lot that has the row's id.  Stated as the claim has it; the code
\* breaks it.
C4_AddAppendsPositiveQty ==
    [][call'.cmd = "add"
        => /\ AppendOnly
           /\ Len(Appended) = 1
           /\ Appended[1].qty > 0
           /\ IsOpen(build_portfolio(rows'), Appended[1].ticker, Appended[1].id)]_vars

\* the row the loop of build_portfolio has just consumed has no parseable id=
Consumed == rows[cursor']
Unreferenced(r) == ~parse_target_id(r.note).found
SameLots(p, q) ==
    /\ \A t \in {"A", "B"} : LotsOf(p, t) = LotsOf(q, t)
    /\ \A t \in {"A", "B"} : RealizedOf(p, t) = RealizedOf(q, t)

C6_RejectedLeavesLedger ==
    [][(/\ call'.cmd \in {"trim", "close", "stop"}
        /\ LET p == build_portfolio(rows)
               t == upper(call'.ticker)
           IN  \/ ~IsOpen(p, t, call'.id)
               \/ call'.cmd = "trim" /\ call'.qty > Remaining(p, t, call'.id))
        => rows' = rows]_vars

\* a trim for more than its open lot holds was turned away
C6_Witness ==
    /\ call.cmd = "trim"
    /\ IsOpen(build_portfolio(rows), upper(call.ticker), call.id)
    /\ call.qty > Remaining(build_portfolio(rows), upper(call.ticker), call.id)
    /\ out = "Trim skipped: only part left"

\* C7: a split that fails one of the four checks (lot open, tokens qty:stop,
\* quantities sum to the lot, stops distinct) appends no row.  Stated as the
\* claim has it; the code breaks it.
C7_SplitAllOrNothing ==
    [][(call'.cmd = "split" /\ ~SplitChecksPass(rows, call')) => rows' = rows]_vars

\* C8: a split of N parts that passes the checks appends N + 1 rows with
\* consecutive ids: a reduction (qty < 0) by L.qty - q1, a stop move
\* (qty = 0) to s1, then an opening (qty > 0) per further part, in order,
\* each with a note that names L.  Stated as the claim has it; the code
\* breaks it.
C8_SplitBatchOrder ==
    [][(call'.cmd = "split" /\ SplitChecksPass(rows, call'))
        => LET n == Len(call'.parts)
               L == LotsOf(build_portfolio(rows), upper(call'.ticker))[call'.id]
               b == Appended
           IN  /\ AppendOnly
               /\ Len(b) = n + 1
               /\ \A i \in 1 .. n + 1 : b[i].id = b[1].id + i - 1
               /\ \A i \in 1 .. n + 1 :
                      parse_target_id(b[i].note) = [found |-> TRUE, id |-> call'.id]
               /\ b[1].qty < 0
               /\ -b[1].qty = L.qty - PartQty(call', 1)
               /\ b[2].qty = 0
               /\ b[2].stop = PartStop(call', 1)
               /\ \A i \in 3 .. n + 1 :
                      /\ b[i].qty > 0
                      /\ b[i].qty = PartQty(call', i - 1)
                      /\ b[i].stop = PartStop(call', i - 1)]_vars

\* C9: closing an open lot appends the one row a trim for the lot's whole
\* remaining quantity appends, a reduction, after which the lot is gone and
\* realized has grown by remaining * (price - entry); closing a lot that is
\* not open appends nothing.  Stated as the claim has it; the code breaks it.
C9_CloseIsFullTrim ==
    [][call'.cmd = "close"
        => LET t == upper(call'.ticker)
               before == build_portfolio(rows)
               after == build_portfolio(rows')
           IN  IF IsOpen(before, t, call'.id)
               THEN LET lot == LotsOf(before, t)[call'.id]
                        asTrim == [call' EXCEPT !.cmd = "trim", !.qty = lot.qty]
                    IN  /\ rows' = trim_result(rows, asTrim).rows
                        /\ AppendOnly
                        /\ Len(Appended) = 1
                        /\ Appended[1].qty = -lot.qty
                        /\ Appended[1].qty < 0
                        /\ ~after.err
                        /\ call'.id \notin DOMAIN LotsOf(after, t)
                        /\ RealizedOf(after, t)
                               = RealizedOf(before, t) + lot.qty * (call'.price - lot.price)
               ELSE rows' = rows]_vars

\* C10: the ledger only grows at its end; its first id is 1 and every row a
\* command appends has an id above the id of every row before it, the rows
\* of one split batch included.
C10_IdsStrictlyIncrease ==
    [][/\ AppendOnly
       /\ rows' # <<>> => rows'[1].id = 1
       /\ \A i \in Len(rows) + 1 .. Len(rows') :
              \A j \in 1 .. i - 1 : rows'[j].id < rows'[i].id]_vars

\* a split into two parts wrote its three rows behind an add
C10_Witness ==
    /\ call.cmd = "split"
    /\ out = "Split lot"
    /\ Len(call.parts) = 2
    /\ Len(rows) = 4
    /\ \A i \in 1 .. 4 : rows[i].id = i

(* ------------------------- claims on the replay ------------------------ *)
Tickers == {"A", "B"}
RECURSIVE Opened(_, _, _)
\* the quantities the first k rows opened for ticker t
Opened(rs, k, t) ==
    IF k = 0 THEN 0
    ELSE Opened(rs, k - 1, t)
         + (IF rs[k].ticker = t /\ rs[k].qty > 0 THEN rs[k].qty ELSE 0)

\* what row k took from the lot it hit: min(-qty, lot.qty), 0 if it hit none
Taken(rs, k, t) ==
    LET r == rs[k]
        before == Replay(rs, k - 1)
        tgt == parse_target_id(r.note)
    IN  IF r.ticker = t /\ r.qty < 0 /\ tgt.found /\ IsOpen(before, t, tgt.id)
        THEN LET have == LotsOf(before, t)[tgt.id].qty
             IN  IF -r.qty > have THEN have ELSE -r.qty
        ELSE 0

RECURSIVE Removed(_, _, _)
Removed(rs, k, t) == IF k = 0 THEN 0 ELSE Removed(rs, k - 1, t) + Taken(rs, k, t)

\* C11: after every prefix the loop has replayed, the open quantity of a
\* ticker plus what reductions took from its lots is what was opened for it.
\* Stated as the claim has it; the code breaks it.
C11_QuantityConservation ==
    ~book.err =>
        \A t \in Tickers :
            TotalQty(book, t) + Removed(rows, cursor, t) = Opened(rows, cursor, t)

\* lot id was opened by a row the loop has consumed and is in no position map
WasOpened(id) == \E j \in 1 .. cursor : rows[j].id = id /\ rows[j].qty > 0
Absent(p, id) == \A t \in Tickers : id \notin DOMAIN LotsOf(p, t)
SameRealized(p, q) == \A t \in Tickers : RealizedOf(p, t) = RealizedOf(q, t)

\* C12: a row whose note names a lot that was opened and is gone does not
\* bring the lot back and changes no realized P/L; a sale or stop move of
\* that kind changes nothing at all.
C12_ClosedLotTerminal ==
    [][(/\ cursor' = cursor + 1
        /\ parse_target_id(Consumed.note).found
        /\ WasOpened(parse_target_id(Consumed.note).id)
        /\ Absent(book, parse_target_id(Consumed.note).id))
        => /\ ~book'.err
           /\ Absent(book', parse_target_id(Consumed.note).id)
           /\ SameRealized(book', book)
           /\ Consumed.qty <= 0 => SameLots(book', book)]_vars

\* lot 1 was opened, sold out, and then named by a stop move
C12_Witness ==
    /\ cursor = 3
    /\ rows[1].qty > 0
    /\ rows[2].qty < 0 /\ rows[2].ticker = rows[1].ticker
    /\ parse_target_id(rows[2].note) = [found |-> TRUE, id |-> 1]
    /\ Absent(Replay(rows, 2), 1)
    /\ rows[3].qty = 0 /\ rows[3].ticker = rows[1].ticker
    /\ parse_target_id(rows[3].note) = [found |-> TRUE, id |-> 1]
    /\ ~book.err

\* C13: a reduction whose note names a lot that is not open under the
\* row's ticker goes by without error and leaves lots and realized alone.
C13_ReductionOfMissingLotIgnored ==
    [][(/\ cursor' = cursor + 1
        /\ Consumed.qty < 0
        /\ parse_target_id(Consumed.note).found
        /\ ~IsOpen(book, Consumed.ticker, parse_target_id(Consumed.note).id))
        => ~book'.err /\ SameLots(book', book)]_vars

\* a sale under ticker B named lot 1, which is open under A
C13_Witness ==
    /\ cursor = 2
    /\ rows[1].qty > 0 /\ rows[1].ticker = "A"
    /\ rows[2].qty < 0 /\ rows[2].ticker = "B"
    /\ parse_target_id(rows[2].note) = [found |-> TRUE, id |-> 1]
    /\ ~book.err
    /\ IsOpen(book, "A", 1)

\* C14: every lot in the position map holds more than 0; a lot leaves the
\* map only in the step of a reduction that names it and takes all it
\* holds, and a lot that stays never holds more than before.
C14_OpenLotsArePositive ==
    [][cursor' = cursor + 1 =>
        \A t \in Tickers :
            /\ \A id \in DOMAIN LotsOf(book', t) : LotsOf(book', t)[id].qty > 0
            /\ \A id \in DOMAIN LotsOf(book, t) :
                   IF id \in DOMAIN LotsOf(book', t)
                   THEN \/ LotsOf(book', t)[id].qty = LotsOf(book, t)[id].qty
                        \/ /\ Consumed.qty < 0
                           /\ LotsOf(book', t)[id].qty < LotsOf(book, t)[id].qty
                   ELSE /\ Consumed.qty < 0
                        /\ Consumed.ticker = t
                        /\ parse_target_id(Consumed.note) = [found |-> TRUE, id |-> id]
                        /\ Round(-Consumed.qty) >= LotsOf(book, t)[id].qty]_vars

\* a sale of 2 met a lot of 1 and took the lot out of the map
C14_Witness ==
    /\ cursor = 2
    /\ rows[1].qty = 1
    /\ rows[2].qty = -2 /\ rows[2].ticker = rows[1].ticker
    /\ parse_target_id(rows[2].note) = [found |-> TRUE, id |-> 1]
    /\ ~book.err
    /\ Absent(book, 1)

(* ------------------- claims on planner-made ledgers -------------------- *)
\* row k of rs is a reduction that meets an open lot when it is replayed
HitsLot(rs, k) ==
    LET before == Replay(rs, k - 1)
        tgt == parse_target_id(rs[k].note)
    IN  rs[k].qty < 0 /\ tgt.found /\ IsOpen(before, rs[k].ticker, tgt.id)
\* the lot it meets
LotHit(rs, k) == LotsOf(Replay(rs, k - 1), rs[k].ticker)[parse_target_id(rs[k].note).id]

\* C15: in a ledger the commands have written, no reduction asks for more
\* than the lot it meets holds.  Stated as the claim has it; the code
\* breaks it.
C15_PlannerNeverOversells ==
    \A k \in 1 .. Len(rows) : HitsLot(rows, k) => -rows[k].qty <= LotHit(rows, k).qty

\* C19: every ledger the commands have written replays to its end.  Stated
\* as the claim has it; the code breaks it.
C19_LedgerStaysReplayable == ~build_portfolio(rows).err

\* C20: whatever the user's note holds, the row an accepted trim, close or
\* stop appends names the lot of --id: its note resolves to that id.
C20_NoteCannotRedirect ==
    [][(call'.cmd \in {"trim", "close", "stop"} /\ rows' # rows)
        => /\ Len(Appended) = 1
           /\ parse_target_id(Appended[1].note) = [found |-> TRUE, id |-> call'.id]]_vars

\* a trim of lot 1 went through with a note that names lot 2
C20_Witness ==
    /\ call.cmd = "trim"
    /\ call.id = 1
    /\ call.note = <<IdTok(2)>>
    /\ out = "Trimmed lot"
    /\ rows[Len(rows)].note = <<Word("trim"), IdTok(1), IdTok(2)>>

\* C18: a split that went through leaves the realized P/L of every ticker
\* as it was.  Stated as the claim has it; the code breaks it.
C18_SplitKeepsRealized ==
    [][(call'.cmd = "split" /\ out' = "Split lot")
        => /\ ~build_portfolio(rows').err
           /\ SameRealized(build_portfolio(rows'), build_portfolio(rows))]_vars

(* -------------------------- claims on the store ------------------------ *)
\* C16: a split writes its rows one append at a time, and an append that
\* fails leaves the rows written before it in the file.
C16_SplitNotTransactional ==
    [][/\ Len(rows') <= Len(rows) + 1
       /\ \A p \in Procs :
              (procs[p].pc = "writing" /\ procs'[p].pc = "failed")
                  => /\ rows' = rows
                     /\ procs'[p].written = procs[p].written]_vars

\* a split died between its appends: the file ends in a proper prefix of
\* its batch
C16_Witness ==
    \E p \in Procs :
        /\ procs[p].call.cmd = "split"
        /\ procs[p].pc = "failed"
        /\ procs[p].written > 0
        /\ procs[p].written < Len(procs[p].batch)
        /\ Len(rows) >= procs[p].written
        /\ SubSeq(rows, Len(rows) - procs[p].written + 1, Len(rows))
               = SubSeq(procs[p].batch, 1, procs[p].written)

\* two rows of the ledger carry the same id
DuplicateIds(rs) == \E i, j \in 1 .. Len(rs) : i # j /\ rs[i].id = rs[j].id

\* C17: two processes that read the same rows before either appended, and
\* have both appended, have left two rows with the same id.
C17_ConcurrentWritersShareId ==
    \A p, q \in Procs :
        (/\ p # q
         /\ procs[p].pc # "idle" /\ procs[q].pc # "idle"
         /\ procs[p].loaded = procs[q].loaded
         /\ procs[p].written > 0 /\ procs[q].written > 0)
            => DuplicateIds(rows)

\* two adds ran side by side and wrote the same id
C17_Witness ==
    /\ procs[1].call.cmd = "add" /\ procs[2].call.cmd = "add"
    /\ procs[1].loaded = procs[2].loaded
    /\ procs[1].written = 1 /\ procs[2].written = 1
    /\ Len(rows) >= 2
    /\ rows[Len(rows)].id = rows[Len(rows) - 1].id
====
